---- MODULE Spec2Model ----
(***************************************************************************)
(* plant_label_generator.py as a state machine.                            *)
(*                                                                         *)
(* A run of main(): parse the command line, check the renderer and the     *)
(* template, load and validate the CSV, render every surviving record,     *)
(* print the summary and exit.  The inputs of a run (the DataFrame that    *)
(* pd.read_csv returns and the parsed command line) are drawn in Init;     *)
(* the answers of the environment (is openscad installed, does the         *)
(* template exist, how does each renderer invocation end) are drawn by     *)
(* the actions.                                                            *)
(*                                                                         *)
(* Text is a sequence of one-character strings.  A DataFrame cell is a     *)
(* tagged value [t, s, n]: NaN, a str (s), an int (n), a float (n, in      *)
(* tenths: 4.5 is 45) or a bool (n = 1 / 0).  Name cells (Common Name,     *)
(* Scientific Name, Nickname) are str or NaN, as sanitize_filename(name:   *)
(* str) and extract_nickname(common_name: str) declare; floats are finite. *)
(***************************************************************************)
EXTENDS Integers, Sequences, FiniteSets, TLC

VARIABLES
    csv_data,         \* the DataFrame pd.read_csv(self.csv_file) returns
    args,             \* parser.parse_args()
    pc,               \* where the run is
    openscad_params,  \* self.openscad_params
    raised,           \* the exception load_plant_data caught, "none" when it
                      \* caught none, "pending" before it is called
    errors,           \* the row messages the DataValidationError carries
    warnings,         \* the warnings load_plant_data logs
    df,               \* generate_all_labels' df (clean_df), None before
    idx,              \* position of the for loop in df
    successful,
    failed,
    attempted,        \* index labels render_stl was called for, in order
    cmd,              \* what build_openscad_command last returned
    outcome,          \* how the last render_stl ended
    files,            \* the .stl paths written so far
    force_no_spike,   \* generator.force_no_spike, "unset" while not set
    force_no_holes,   \* generator.force_no_holes, "unset" while not set
    exit_code         \* the process exit status, -1 while running

vars == <<csv_data, args, pc, openscad_params, raised, errors, warnings, df,
          idx, successful, failed, attempted, cmd, outcome, files,
          force_no_spike, force_no_holes, exit_code>>

---------------------------------------------------------------------------
(* Python text primitives                                                  *)

Whitespace == {" ", "\t", "\n"}

IsSpace(c) == c \in Whitespace

DigitChars == <<"0", "1", "2", "3", "4", "5", "6", "7", "8", "9">>

IsDigit(c) == \E d \in 1..Len(DigitChars) : DigitChars[d] = c

DigitVal(c) == (CHOOSE d \in 1..Len(DigitChars) : DigitChars[d] = c) - 1

UpperOf ==
    ("a" :> "A") @@ ("b" :> "B") @@ ("c" :> "C") @@ ("d" :> "D") @@
    ("e" :> "E") @@ ("f" :> "F") @@ ("g" :> "G") @@ ("h" :> "H") @@
    ("i" :> "I") @@ ("j" :> "J") @@ ("k" :> "K") @@ ("l" :> "L") @@
    ("m" :> "M") @@ ("n" :> "N") @@ ("o" :> "O") @@ ("p" :> "P") @@
    ("q" :> "Q") @@ ("r" :> "R") @@ ("s" :> "S") @@ ("t" :> "T") @@
    ("u" :> "U") @@ ("v" :> "V") @@ ("w" :> "W") @@ ("x" :> "X") @@
    ("y" :> "Y") @@ ("z" :> "Z")

IsLetter(c) == c \in DOMAIN UpperOf \/ \E l \in DOMAIN UpperOf : UpperOf[l] = c

\* str.upper()
str_upper(s) ==
    [i \in 1..Len(s) |-> IF s[i] \in DOMAIN UpperOf THEN UpperOf[s[i]] ELSE s[i]]

RECURSIVE str_lstrip(_)
str_lstrip(s) ==
    IF s # <<>> /\ IsSpace(Head(s)) THEN str_lstrip(Tail(s)) ELSE s

RECURSIVE str_rstrip(_)
str_rstrip(s) ==
    IF s # <<>> /\ IsSpace(s[Len(s)])
    THEN str_rstrip(SubSeq(s, 1, Len(s) - 1))
    ELSE s

\* str.strip()
str_strip(s) == str_rstrip(str_lstrip(s))

RECURSIVE NatStr(_)
NatStr(n) ==
    IF n < 10 THEN <<DigitChars[n + 1]>>
    ELSE NatStr(n \div 10) \o <<DigitChars[(n % 10) + 1]>>

Abs(n) == IF n < 0 THEN -n ELSE n

SignStr(n) == IF n < 0 THEN <<"-">> ELSE <<>>

---------------------------------------------------------------------------
(* DataFrame cells and the conversions the program applies to them         *)

NaN == [t |-> "nan", s |-> <<>>, n |-> 0]

StrCell(x) == [t |-> "str", s |-> x, n |-> 0]

IntCell(k) == [t |-> "int", s |-> <<>>, n |-> k]

FloatCell(q) == [t |-> "float", s |-> <<>>, n |-> q]

BoolCell(b) == [t |-> "bool", s |-> <<>>, n |-> IF b THEN 1 ELSE 0]

\* pd.isna(value) / pd.notna(value)
pd_isna(v) == v.t = "nan"

pd_notna(v) == ~pd_isna(v)

\* str(value)
py_str(v) ==
    CASE v.t = "str"   -> v.s
      [] v.t = "int"   -> SignStr(v.n) \o NatStr(Abs(v.n))
      [] v.t = "float" -> SignStr(v.n) \o NatStr(Abs(v.n) \div 10) \o <<".">>
                          \o <<DigitChars[(Abs(v.n) % 10) + 1]>>
      [] v.t = "bool"  -> IF v.n = 1 THEN <<"T", "r", "u", "e">>
                          ELSE <<"F", "a", "l", "s", "e">>
      [] OTHER         -> <<"n", "a", "n">>

RECURSIVE DigitsVal(_)
DigitsVal(s) ==
    IF s = <<>> THEN 0
    ELSE 10 * DigitsVal(SubSeq(s, 1, Len(s) - 1)) + DigitVal(s[Len(s)])

AllDigits(s) == s # <<>> /\ \A i \in 1..Len(s) : IsDigit(s[i])

Ok(val) == [exc |-> "none", val |-> val]

Exc(name) == [exc |-> name, val |-> 0]

\* the text after an optional sign, and whether the sign is a minus
Unsigned(t) == IF t # <<>> /\ Head(t) \in {"-", "+"} THEN Tail(t) ELSE t

Negative(t) == t # <<>> /\ Head(t) = "-"

Signed(neg, mag) == IF neg THEN -mag ELSE mag

IntOfDigits(neg, body) ==
    IF AllDigits(body) THEN Ok(Signed(neg, DigitsVal(body)))
    ELSE Exc("ValueError")

IntOfText(t) == IntOfDigits(Negative(t), Unsigned(t))

\* int("..."): optional blanks, an optional sign, decimal digits
ParseInt(s) == IntOfText(str_strip(s))

\* int(value): floats are truncated towards zero, int(nan) raises ValueError
py_int(v) ==
    CASE v.t = "int"   -> Ok(v.n)
      [] v.t = "bool"  -> Ok(v.n)
      [] v.t = "float" -> Ok(IF v.n >= 0 THEN v.n \div 10 ELSE -((-v.n) \div 10))
      [] v.t = "str"   -> ParseInt(v.s)
      [] OTHER         -> Exc("ValueError")

\* digits, a point and one more digit
IsDecimal(body) ==
    /\ Len(body) >= 3
    /\ body[Len(body) - 1] = "."
    /\ IsDigit(body[Len(body)])
    /\ AllDigits(SubSeq(body, 1, Len(body) - 2))

DecimalVal(body) ==
    10 * DigitsVal(SubSeq(body, 1, Len(body) - 2)) + DigitVal(body[Len(body)])

FloatOfDigits(neg, body) ==
    IF AllDigits(body) THEN Ok(Signed(neg, 10 * DigitsVal(body)))
    ELSE IF IsDecimal(body) THEN Ok(Signed(neg, DecimalVal(body)))
    ELSE Exc("ValueError")

FloatOfText(t) == FloatOfDigits(Negative(t), Unsigned(t))

\* float("..."), in tenths: digits, optionally a point and one more digit
ParseFloat(s) == FloatOfText(str_strip(s))

\* float(value), in tenths; both callers test pd.notna(value) first
py_float(v) ==
    CASE v.t = "int"   -> Ok(10 * v.n)
      [] v.t = "bool"  -> Ok(10 * v.n)
      [] v.t = "float" -> Ok(v.n)
      [] v.t = "str"   -> ParseFloat(v.s)
      [] OTHER         -> Exc("nan")

---------------------------------------------------------------------------
(* DataFrames: [columns, index, rows]; a row (a Series) is a function from *)
(* the column names to cells                                               *)

DataFrame(columns, index, rows) ==
    [columns |-> columns, index |-> index, rows |-> rows]

\* pd.DataFrame()
EmptyFrame == DataFrame({}, <<>>, <<>>)

\* the elements of s at the positions in K, in order
RECURSIVE SubseqAt(_, _)
SubseqAt(s, K) ==
    IF s = <<>> THEN <<>>
    ELSE SubseqAt(SubSeq(s, 1, Len(s) - 1), K)
         \o (IF Len(s) \in K THEN <<s[Len(s)]>> ELSE <<>>)

RECURSIVE Flatten(_)
Flatten(ss) == IF ss = <<>> THEN <<>> ELSE Head(ss) \o Flatten(Tail(ss))

---------------------------------------------------------------------------
(* PlantLabelGenerator.validate_csv_data and _is_valid_boolean             *)

required_cols ==
    <<"Common Name", "Scientific Name", "Water", "Light",
      "Dry between Waterings", "Spike", "Holes">>

bool_fields == <<"Dry between Waterings", "Spike", "Holes">>

dim_fields == <<"Width", "Height">>

ValidBooleanTexts ==
    { <<"T", "R", "U", "E">>, <<"F", "A", "L", "S", "E">>, <<"1">>, <<"0">>,
      <<"Y", "E", "S">>, <<"N", "O">> }

\* a check that upper-cases the text without stripping it
is_valid_boolean_unstripped(value) ==
    IF pd_isna(value) THEN TRUE
    ELSE str_upper(py_str(value)) \in ValidBooleanTexts

_is_valid_boolean(value) ==
    IF pd_isna(value) THEN TRUE
    ELSE str_upper(str_strip(py_str(value))) \in ValidBooleanTexts

\* an error message: the row it names, the field, and what it says
Msg(row, field, what) == [row |-> row, field |-> field, what |-> what]

\* a warning: as an error message, with the names or the count it states
Warn(row, field, what, names, count) ==
    [row |-> row, field |-> field, what |-> what, names |-> names,
     count |-> count]

\* "Row {index+1}: {field} is empty"
NameErrors(row, index, field) ==
    IF pd_isna(row[field]) \/ str_strip(py_str(row[field])) = <<>>
    THEN <<Msg(index + 1, field, "is empty")>>
    ELSE <<>>

LevelMin == 1

LevelMax == 4

\* "Row {index+1}: {field} level must be 1-4 / must be numeric (1-4)"
LevelVerdict(val, index, field) ==
    IF val.exc # "none"
    THEN <<Msg(index + 1, field, "must be numeric (1-4)")>>
    ELSE IF ~(LevelMin <= val.val /\ val.val <= LevelMax)
         THEN <<Msg(index + 1, field, "must be 1-4")>>
         ELSE <<>>

LevelErrors(row, index, field) == LevelVerdict(py_int(row[field]), index, field)

\* "Row {index+1}: {bool_field} must be TRUE/FALSE"
BooleanErrors(row, index, field) ==
    IF ~_is_valid_boolean(row[field])
    THEN <<Msg(index + 1, field, "must be TRUE/FALSE")>>
    ELSE <<>>

\* 200 mm, in tenths
LargeDimension == 2000

\* "Row {index+1}: {dim_field} must be positive / must be numeric"
DimensionVerdict(dim_val, index, field) ==
    IF dim_val.exc # "none"
    THEN <<Msg(index + 1, field, "must be numeric")>>
    ELSE IF dim_val.val <= 0
         THEN <<Msg(index + 1, field, "must be positive")>>
         ELSE <<>>

\* if dim_field in df.columns and pd.notna(row[dim_field])
Provided(row, field) == field \in DOMAIN row /\ pd_notna(row[field])

DimensionErrors(row, index, field) ==
    IF Provided(row, field)
    THEN DimensionVerdict(py_float(row[field]), index, field)
    ELSE <<>>

\* "Row {index+1}: {dim_field} is very large"
DimensionNotice(dim_val, index, field) ==
    IF dim_val.exc = "none" /\ dim_val.val > 0 /\ dim_val.val > LargeDimension
    THEN <<Warn(index + 1, field, "is very large", {}, 0)>>
    ELSE <<>>

DimensionWarnings(row, index, field) ==
    IF Provided(row, field)
    THEN DimensionNotice(py_float(row[field]), index, field)
    ELSE <<>>

\* row_errors of one pass of the loop over df.iterrows()
RowErrors(row, index) ==
    NameErrors(row, index, "Common Name")
    \o NameErrors(row, index, "Scientific Name")
    \o LevelErrors(row, index, "Water")
    \o LevelErrors(row, index, "Light")
    \o Flatten([k \in 1..Len(bool_fields) |->
                   BooleanErrors(row, index, bool_fields[k])])
    \o Flatten([k \in 1..Len(dim_fields) |->
                   DimensionErrors(row, index, dim_fields[k])])

RowWarnings(row, index) ==
    Flatten([k \in 1..Len(dim_fields) |->
                DimensionWarnings(row, index, dim_fields[k])])

IdentityPair(row) == <<row["Common Name"], row["Scientific Name"]>>

\* clean_df.duplicated(subset=[...], keep=False), as the set of positions
Duplicated(rows) ==
    { i \in 1..Len(rows) :
        \E j \in 1..Len(rows) :
            j # i /\ IdentityPair(rows[j]) = IdentityPair(rows[i]) }

\* drop_duplicates with keep='last' instead
LastOccurrences(rows) ==
    { i \in 1..Len(rows) :
        \A j \in (i + 1)..Len(rows) :
            IdentityPair(rows[j]) # IdentityPair(rows[i]) }

\* clean_df.drop_duplicates(subset=[...], keep='first'): positions kept
FirstOccurrences(rows) ==
    { i \in 1..Len(rows) :
        \A j \in 1..(i - 1) : IdentityPair(rows[j]) # IdentityPair(rows[i]) }

\* set(duplicate_plants)
DuplicatePlants(rows) == { rows[i]["Common Name"] : i \in Duplicated(rows) }

\* duplicates.sum() - len(set(duplicate_plants))
RemovedCount(rows) ==
    Cardinality(Duplicated(rows)) - Cardinality(DuplicatePlants(rows))

\* "Found duplicate entries: {...}" and "Removed {...} duplicate rows"
DuplicateWarnings(rows) ==
    IF Duplicated(rows) # {}
    THEN << Warn(0, "", "Found duplicate entries", DuplicatePlants(rows), 0),
            Warn(0, "", "Removed duplicate rows", {}, RemovedCount(rows)) >>
    ELSE <<>>

\* the positions drop_duplicates keeps, when duplicates.any()
Kept(rows) ==
    IF Duplicated(rows) # {} THEN FirstOccurrences(rows) ELSE 1..Len(rows)

\* clean_df after the duplicate check; pd.DataFrame() without valid rows
CleanFrame(columns, index, rows) ==
    IF rows = <<>> THEN EmptyFrame
    ELSE DataFrame(columns, SubseqAt(index, Kept(rows)),
                   SubseqAt(rows, Kept(rows)))

\* missing_cols
MissingCols(d) ==
    SubseqAt(required_cols,
             { k \in 1..Len(required_cols) : required_cols[k] \notin d.columns })

\* errors, after the loop over df.iterrows()
AllErrors(d) ==
    Flatten([i \in 1..Len(d.rows) |-> RowErrors(d.rows[i], d.index[i])])

\* the warnings of the loop
AllWarnings(d) ==
    Flatten([i \in 1..Len(d.rows) |-> RowWarnings(d.rows[i], d.index[i])])

\* the positions of valid_rows
ValidRows(d) ==
    { i \in 1..Len(d.rows) : RowErrors(d.rows[i], d.index[i]) = <<>> }

\* raise DataValidationError(...)
Raise(missing_cols, errs) ==
    [exc |-> "DataValidationError", missing_cols |-> missing_cols,
     errors |-> errs, clean_df |-> EmptyFrame, warnings |-> <<>>]

\* return clean_df, warnings
Return(clean_df, warns) ==
    [exc |-> "none", missing_cols |-> <<>>, errors |-> <<>>,
     clean_df |-> clean_df, warnings |-> warns]

\* the duplicate check on valid_rows
CheckDuplicates(columns, index, rows, warns) ==
    Return(CleanFrame(columns, index, rows), warns \o DuplicateWarnings(rows))

\* a validator that drops the rows with errors instead of raising
validate_dropping_rows(d) ==
    IF MissingCols(d) # <<>> THEN Raise(MissingCols(d), <<>>)
    ELSE CheckDuplicates(d.columns, SubseqAt(d.index, ValidRows(d)),
                         SubseqAt(d.rows, ValidRows(d)), AllWarnings(d))

\* validate_csv_data(df): what it raises, or the (clean_df, warnings) it returns
validate_csv_data(d) ==
    IF MissingCols(d) # <<>> THEN Raise(MissingCols(d), <<>>)
    ELSE IF AllErrors(d) # <<>> THEN Raise(<<>>, AllErrors(d))
    ELSE CheckDuplicates(d.columns, SubseqAt(d.index, ValidRows(d)),
                         SubseqAt(d.rows, ValidRows(d)), AllWarnings(d))

---------------------------------------------------------------------------
(* convert_boolean_to_openscad, sanitize_filename, extract_nickname        *)

TrueTexts == { <<"T", "R", "U", "E">>, <<"1">>, <<"Y", "E", "S">> }

FalseTexts == { <<"F", "A", "L", "S", "E">>, <<"0">>, <<"N", "O">> }

\* the numeric fallback: float(value) != 0, "false" when float raises
NumericFallback(numeric_val) ==
    IF numeric_val.exc = "none"
    THEN (IF numeric_val.val # 0 THEN "true" ELSE "false")
    ELSE "false"

ConvertText(value_str, value) ==
    IF value_str \in TrueTexts THEN "true"
    ELSE IF value_str \in FalseTexts THEN "false"
    ELSE NumericFallback(py_float(value))

\* a conversion that knows TRUE and 1 only, and leaves YES to the fallback
convert_without_yes(value) ==
    IF pd_isna(value) THEN "false"
    ELSE IF str_upper(str_strip(py_str(value))) \in {<<"T", "R", "U", "E">>, <<"1">>}
         THEN "true"
         ELSE NumericFallback(py_float(value))

convert_boolean_to_openscad(value) ==
    IF pd_isna(value) THEN "false"
    ELSE ConvertText(str_upper(str_strip(py_str(value))), value)

\* \w
IsWordChar(c) == IsLetter(c) \/ IsDigit(c) \/ c = "_"

\* re.sub(r'[^\w\s-]', '', name)
RECURSIVE RemoveSpecial(_)
RemoveSpecial(s) ==
    IF s = <<>> THEN <<>>
    ELSE (IF IsWordChar(Head(s)) \/ IsSpace(Head(s)) \/ Head(s) = "-"
          THEN <<Head(s)>> ELSE <<>>) \o RemoveSpecial(Tail(s))

IsSeparator(c) == c = "-" \/ IsSpace(c)

RECURSIVE SkipSeparators(_)
SkipSeparators(s) ==
    IF s # <<>> /\ IsSeparator(Head(s)) THEN SkipSeparators(Tail(s)) ELSE s

\* re.sub(r'[-\s]+', '_', filename)
RECURSIVE JoinSeparators(_)
JoinSeparators(s) ==
    IF s = <<>> THEN <<>>
    ELSE IF IsSeparator(Head(s))
         THEN <<"_">> \o JoinSeparators(SkipSeparators(s))
         ELSE <<Head(s)>> \o JoinSeparators(Tail(s))

\* filename.strip('_')
RECURSIVE StripUnderscores(_)
StripUnderscores(s) ==
    IF s # <<>> /\ Head(s) = "_" THEN StripUnderscores(Tail(s))
    ELSE IF s # <<>> /\ s[Len(s)] = "_"
         THEN StripUnderscores(SubSeq(s, 1, Len(s) - 1))
         ELSE s

sanitize_filename(name) ==
    StripUnderscores(JoinSeparators(RemoveSpecial(name)))

\* the positions of the character q in s
QuotesAt(s, q) == { i \in 1..Len(s) : s[i] = q }

Min(S) == CHOOSE x \in S : \A y \in S : x <= y

\* re.search(q + "([^q]*)" + q, s): the first q and the next q after it
HasQuoted(s, q) == Cardinality(QuotesAt(s, q)) >= 2

QuoteOpen(s, q) == Min(QuotesAt(s, q))

QuoteClose(s, q) == Min(QuotesAt(s, q) \ {QuoteOpen(s, q)})

\* quote_match.group(1)
FirstQuoted(s, q) == SubSeq(s, QuoteOpen(s, q) + 1, QuoteClose(s, q) - 1)

\* re.sub with count=1: the first match only
RemoveFirstQuoted(s, q) ==
    IF ~HasQuoted(s, q) THEN s
    ELSE SubSeq(s, 1, QuoteOpen(s, q) - 1)
         \o SubSeq(s, QuoteClose(s, q) + 1, Len(s))

\* re.sub(q + "[^q]*" + q, "", s): every match, left to right
RECURSIVE RemoveQuoted(_, _)
RemoveQuoted(s, q) ==
    IF ~HasQuoted(s, q) THEN s
    ELSE SubSeq(s, 1, QuoteOpen(s, q) - 1)
         \o RemoveQuoted(SubSeq(s, QuoteClose(s, q) + 1, Len(s)), q)

SingleQuote == "'"

DoubleQuote == "\""

\* extract_nickname(common_name) -> (base_name, nickname)
extract_nickname(common_name) ==
    IF HasQuoted(common_name, SingleQuote)
    THEN [base_name |-> str_strip(RemoveQuoted(common_name, SingleQuote)),
          nickname  |-> FirstQuoted(common_name, SingleQuote)]
    ELSE IF HasQuoted(common_name, DoubleQuote)
    THEN [base_name |-> str_strip(RemoveQuoted(common_name, DoubleQuote)),
          nickname  |-> FirstQuoted(common_name, DoubleQuote)]
    ELSE [base_name |-> common_name, nickname |-> <<>>]

---------------------------------------------------------------------------
(* self.openscad_params and the command line                               *)

Text_LiberationSans ==
    <<"L", "i", "b", "e", "r", "a", "t", "i", "o", "n", " ",
      "S", "a", "n", "s">>

\* the keys of self.openscad_params, in dict order
ParamOrder ==
    <<"label_width", "label_height", "label_thickness", "text_height",
      "text_size_multiplier", "symbol_size_multiplier", "show_plant_name",
      "show_scientific_name", "show_nickname", "show_water_symbols",
      "show_light_symbols", "show_frame", "corner_radius", "frame_width",
      "frame_height", "spike_length", "spike_width", "spike_taper",
      "spike_position", "spike_base_radius", "hole_diameter",
      "hole_margin_x", "hole_margin_y", "font_name">>

ParamKeys == { ParamOrder[k] : k \in 1..Len(ParamOrder) }

\* PlantLabelGenerator.__init__: the defaults
DefaultParams ==
    [k \in ParamKeys |->
        CASE k = "label_width"            -> IntCell(80)
          [] k = "label_height"           -> IntCell(30)
          [] k = "label_thickness"        -> IntCell(3)
          [] k = "text_height"            -> FloatCell(15)
          [] k = "text_size_multiplier"   -> FloatCell(10)
          [] k = "symbol_size_multiplier" -> FloatCell(10)
          [] k = "show_plant_name"        -> BoolCell(TRUE)
          [] k = "show_scientific_name"   -> BoolCell(TRUE)
          [] k = "show_nickname"          -> BoolCell(TRUE)
          [] k = "show_water_symbols"     -> BoolCell(TRUE)
          [] k = "show_light_symbols"     -> BoolCell(TRUE)
          [] k = "show_frame"             -> BoolCell(TRUE)
          [] k = "corner_radius"          -> IntCell(3)
          [] k = "frame_width"            -> FloatCell(15)
          [] k = "frame_height"           -> FloatCell(8)
          [] k = "spike_length"           -> IntCell(40)
          [] k = "spike_width"            -> IntCell(6)
          [] k = "spike_taper"            -> FloatCell(7)
          [] k = "spike_position"         -> IntCell(0)
          [] k = "spike_base_radius"      -> FloatCell(15)
          [] k = "hole_diameter"          -> IntCell(3)
          [] k = "hole_margin_x"          -> IntCell(4)
          [] k = "hole_margin_y"          -> IntCell(4)
          [] OTHER                        -> StrCell(Text_LiberationSans)]

\* create_argument_parser: what parse_args() returns for an empty command
\* line (argparse leaves a non-string default as it is written)
DefaultArgs ==
    [csv |-> "plant_list.csv", template |-> "enhanced_plant_labeler.scad",
     output_dir |-> "generated_labels",
     label_width |-> IntCell(80), label_height |-> IntCell(30),
     label_thickness |-> IntCell(3), text_height |-> FloatCell(15),
     text_size |-> FloatCell(10), symbol_size |-> FloatCell(10),
     no_plant_name |-> FALSE, no_scientific_name |-> FALSE,
     no_nickname |-> FALSE, no_water_symbols |-> FALSE,
     no_light_symbols |-> FALSE, no_frame |-> FALSE,
     corner_radius |-> IntCell(3), frame_width |-> FloatCell(15),
     frame_height |-> FloatCell(8), no_spike |-> FALSE,
     spike_length |-> IntCell(40), spike_width |-> IntCell(6),
     spike_taper |-> FloatCell(7), spike_position |-> IntCell(0),
     no_holes |-> FALSE, hole_diameter |-> IntCell(3),
     hole_margin_x |-> IntCell(4), hole_margin_y |-> IntCell(4),
     font |-> StrCell(Text_LiberationSans), verbose |-> FALSE]

\* main: generator.openscad_params.update({...})
UpdatedParams(a) ==
    [k \in ParamKeys |->
        CASE k = "label_width"            -> a.label_width
          [] k = "label_height"           -> a.label_height
          [] k = "label_thickness"        -> a.label_thickness
          [] k = "text_height"            -> a.text_height
          [] k = "text_size_multiplier"   -> a.text_size
          [] k = "symbol_size_multiplier" -> a.symbol_size
          [] k = "show_plant_name"        -> BoolCell(~a.no_plant_name)
          [] k = "show_scientific_name"   -> BoolCell(~a.no_scientific_name)
          [] k = "show_nickname"          -> BoolCell(~a.no_nickname)
          [] k = "show_water_symbols"     -> BoolCell(~a.no_water_symbols)
          [] k = "show_light_symbols"     -> BoolCell(~a.no_light_symbols)
          [] k = "show_frame"             -> BoolCell(~a.no_frame)
          [] k = "corner_radius"          -> a.corner_radius
          [] k = "frame_width"            -> a.frame_width
          [] k = "frame_height"           -> a.frame_height
          [] k = "spike_length"           -> a.spike_length
          [] k = "spike_width"            -> a.spike_width
          [] k = "spike_taper"            -> a.spike_taper
          [] k = "spike_position"         -> a.spike_position
          [] k = "spike_base_radius"      -> FloatCell(15)
          [] k = "hole_diameter"          -> a.hole_diameter
          [] k = "hole_margin_x"          -> a.hole_margin_x
          [] k = "hole_margin_y"          -> a.hole_margin_y
          [] OTHER                        -> a.font]

\* hasattr(args, name)
hasattr(a, name) == name \in DOMAIN a

---------------------------------------------------------------------------
(* build_openscad_command and render_stl                                   *)

Define(name, value) == [name |-> name, value |-> value]

AsFloatCell(val) == IF val.exc = "none" THEN Ok(FloatCell(val.val)) ELSE val

\* float(plant_data[field]) if pd.notna(plant_data[field]) else the
\* configured value; plant_data[field] raises KeyError without the column
Dimension(plant_data, field, params, key) ==
    IF field \notin DOMAIN plant_data THEN Exc("KeyError")
    ELSE IF pd_notna(plant_data[field])
         THEN AsFloatCell(py_float(plant_data[field]))
         ELSE Ok(params[key])

\* int(cell), or 2 for a missing cell
Level(plant_data, field) ==
    IF pd_notna(plant_data[field]) THEN py_int(plant_data[field]) ELSE Ok(2)

FirstException(results) ==
    IF \E k \in 1..Len(results) : results[k].exc # "none"
    THEN results[Min({ k \in 1..Len(results) : results[k].exc # "none" })].exc
    ELSE "none"

\* the -D assignments for every key of self.openscad_params
AllConfiguredDefines(params) ==
    [k \in 1..Len(ParamOrder) |-> Define(ParamOrder[k], params[ParamOrder[k]])]

\* the -D assignments for self.openscad_params, label_width/height left out
ConfiguredDefines(params) ==
    LET keep == { k \in 1..Len(ParamOrder) :
                    ParamOrder[k] \notin {"label_width", "label_height"} }
        keys == SubseqAt(ParamOrder, keep)
    IN  [k \in 1..Len(keys) |-> Define(keys[k], params[keys[k]])]

\* the nickname column wins when it has text
HasNickname(plant_data) ==
    /\ "Nickname" \in DOMAIN plant_data
    /\ pd_notna(plant_data["Nickname"])
    /\ str_strip(plant_data["Nickname"].s) # <<>>

\* (common_name, nickname) of the command
DisplayNames(plant_data) ==
    IF HasNickname(plant_data)
    THEN [base_name |-> plant_data["Common Name"].s,
          nickname  |-> plant_data["Nickname"].s]
    ELSE extract_nickname(plant_data["Common Name"].s)

\* cmd, once every value is there
Command(names, scientific_name, water_drops, light_type, dry_between_waterings, spike_enabled, enable_hanging_holes, label_width, label_height, output_file, params, template_file) ==
    [exc |-> "none", output_file |-> output_file,
     defines |->
        << Define("plant_name", StrCell(names.base_name)),
           Define("scientific_name", StrCell(scientific_name)),
           Define("nickname", StrCell(names.nickname)),
           Define("water_drops", IntCell(water_drops.val)),
           Define("light_type", IntCell(light_type.val)),
           Define("show_dry_soil_symbol",
                  BoolCell(dry_between_waterings = "true")),
           Define("spike_enabled", BoolCell(spike_enabled = "true")),
           Define("enable_hanging_holes",
                  BoolCell(enable_hanging_holes = "true")),
           Define("label_width", label_width.val),
           Define("label_height", label_height.val) >>
        \o ConfiguredDefines(params),
     template_file |-> template_file]

\* the exception build_openscad_command raises instead of returning
Raised(exc, output_file, template_file) ==
    [exc |-> exc, output_file |-> output_file, defines |-> <<>>,
     template_file |-> template_file]

CommandOrRaise(exc, built, output_file, template_file) ==
    IF exc # "none" THEN Raised(exc, output_file, template_file) ELSE built

Assemble(names, scientific_name, water_drops, light_type, dry_between_waterings, spike_enabled, enable_hanging_holes, label_width, label_height, output_file, params, template_file) ==
    CommandOrRaise(
        FirstException(<<water_drops, light_type, label_width, label_height>>),
        Command(names, scientific_name, water_drops, light_type,
                dry_between_waterings, spike_enabled, enable_hanging_holes,
                label_width, label_height, output_file, params,
                template_file),
        output_file, template_file)

\* build_openscad_command(plant_data, output_file): the exception it raises,
\* or the command: "openscad -o output_file -D name=value ... template_file"
build_openscad_command(plant_data, output_file, params, template_file) ==
    Assemble(DisplayNames(plant_data), plant_data["Scientific Name"].s,
             Level(plant_data, "Water"), Level(plant_data, "Light"),
             convert_boolean_to_openscad(plant_data["Dry between Waterings"]),
             convert_boolean_to_openscad(plant_data["Spike"]),
             convert_boolean_to_openscad(plant_data["Holes"]),
             Dimension(plant_data, "Width", params, "label_width"),
             Dimension(plant_data, "Height", params, "label_height"),
             output_file, params, template_file)

\* no command built yet
NoCommand ==
    [exc |-> "none", output_file |-> [dir |-> "", name |-> <<>>],
     defines |-> <<>>, template_file |-> ""]

\* f"{self.output_dir}/{output_filename}.stl"
StlOutput(output_dir, output_filename) ==
    [dir |-> output_dir, name |-> output_filename]

\* how subprocess.run(cmd, ..., timeout=120) can end
RenderOutcomes == {"exit_0", "exit_nonzero", "TimeoutExpired", "FileNotFoundError"}

\* render_stl(plant_data, output_filename), the renderer ending as `run`:
\* the command built, how the call ended, and the bool returned
Rendered(built, run) ==
    IF built.exc # "none"
    THEN [cmd |-> built, outcome |-> "Exception", ok |-> FALSE]
    ELSE [cmd |-> built, outcome |-> run, ok |-> (run = "exit_0")]

render_stl(plant_data, output_filename, output_dir, params, template_file, run) ==
    Rendered(build_openscad_command(plant_data,
                 StlOutput(output_dir, output_filename), params, template_file),
             run)

---------------------------------------------------------------------------
(* main and generate_all_labels, step by step                              *)

Running == -1

Flag(b) == IF b THEN "true" ELSE "false"

\* main, up to the call of generate_all_labels
Main ==
    /\ pc = "main"
    /\ openscad_params' = UpdatedParams(args)
    /\ force_no_spike' = IF hasattr(args, "force_no_spike")
                         THEN Flag(args.no_spike) ELSE force_no_spike
    /\ force_no_holes' = IF hasattr(args, "force_no_holes")
                         THEN Flag(args.no_holes) ELSE force_no_holes
    /\ pc' = "check_openscad"
    /\ UNCHANGED <<csv_data, args, raised, errors, warnings, df, idx,
                   successful, failed, attempted, cmd, outcome, files,
                   exit_code>>

\* generate_all_labels returns False: main prints the failure, sys.exit(1)
ReturnFalse ==
    /\ pc' = "exit"
    /\ exit_code' = 1

\* if not self.check_openscad(): return False
CheckOpenscad ==
    /\ pc = "check_openscad"
    /\ \E found \in BOOLEAN :
         IF found THEN pc' = "check_template" /\ UNCHANGED exit_code
         ELSE ReturnFalse
    /\ UNCHANGED <<csv_data, args, openscad_params, raised, errors, warnings,
                   df, idx, successful, failed, attempted, cmd, outcome, files,
                   force_no_spike, force_no_holes>>

\* if not self.check_template_file(): return False
CheckTemplate ==
    /\ pc = "check_template"
    /\ \E exists \in BOOLEAN :
         IF exists THEN pc' = "load" /\ UNCHANGED exit_code
         ELSE ReturnFalse
    /\ UNCHANGED <<csv_data, args, openscad_params, raised, errors, warnings,
                   df, idx, successful, failed, attempted, cmd, outcome, files,
                   force_no_spike, force_no_holes>>

\* load_plant_data(): (the exception caught, errors, warnings, the frame)
load_plant_data(file_found, validated) ==
    IF ~file_found
    THEN [raised |-> "FileNotFoundError", errors |-> <<>>,
          warnings |-> <<>>, df |-> EmptyFrame]
    ELSE [raised |-> validated.exc, errors |-> validated.errors,
          warnings |-> validated.warnings, df |-> validated.clean_df]

\* generate_all_labels after load_plant_data returned
Loaded(loaded) ==
    /\ raised' = loaded.raised
    /\ errors' = loaded.errors
    /\ warnings' = loaded.warnings
    /\ df' = loaded.df
    /\ IF loaded.raised # "none" \/ Len(loaded.df.rows) = 0
       THEN ReturnFalse /\ UNCHANGED <<idx, successful, failed>>
       ELSE /\ pc' = "loop"
            /\ idx' = 1
            /\ successful' = 0
            /\ failed' = 0
            /\ UNCHANGED exit_code

\* df = self.load_plant_data(); if df is None or len(df) == 0: return False
LoadPlantData ==
    /\ pc = "load"
    /\ \E file_found \in BOOLEAN :
         Loaded(load_plant_data(file_found, validate_csv_data(csv_data)))
    /\ UNCHANGED <<csv_data, args, openscad_params, attempted, cmd, outcome,
                   files, force_no_spike, force_no_holes>>

\* if self.render_stl(plant, filename): successful += 1, else: failed += 1
Count(rendered) ==
    /\ cmd' = rendered.cmd
    /\ outcome' = rendered.outcome
    /\ successful' = IF rendered.ok THEN successful + 1 ELSE successful
    /\ failed' = IF rendered.ok THEN failed ELSE failed + 1
    /\ files' = IF rendered.ok THEN files \cup {rendered.cmd.output_file}
                ELSE files

\* one pass of a loop that a failed record ends
ProcessPlantOrStop ==
    /\ pc = "loop"
    /\ idx <= Len(df.rows)
    /\ \E run \in RenderOutcomes :
         Count(render_stl(df.rows[idx],
                          sanitize_filename(df.rows[idx]["Common Name"].s),
                          args.output_dir, openscad_params, args.template,
                          run))
    /\ attempted' = Append(attempted, df.index[idx])
    /\ idx' = IF outcome' = "exit_0" THEN idx + 1 ELSE Len(df.rows) + 1
    /\ UNCHANGED <<csv_data, args, pc, openscad_params, raised, errors,
                   warnings, df, force_no_spike, force_no_holes, exit_code>>

\* one pass of "for index, plant in df.iterrows()"
ProcessPlant ==
    /\ pc = "loop"
    /\ idx <= Len(df.rows)
    /\ \E run \in RenderOutcomes :
         Count(render_stl(df.rows[idx],
                          sanitize_filename(df.rows[idx]["Common Name"].s),
                          args.output_dir, openscad_params, args.template,
                          run))
    /\ attempted' = Append(attempted, df.index[idx])
    /\ idx' = idx + 1
    /\ UNCHANGED <<csv_data, args, pc, openscad_params, raised, errors,
                   warnings, df, force_no_spike, force_no_holes, exit_code>>

\* a summary that returns failed == 0
SummaryOfFailures ==
    /\ pc = "loop"
    /\ idx > Len(df.rows)
    /\ pc' = "exit"
    /\ exit_code' = IF failed = 0 THEN 0 ELSE 1
    /\ UNCHANGED <<csv_data, args, openscad_params, raised, errors, warnings,
                   df, idx, successful, failed, attempted, cmd, outcome, files,
                   force_no_spike, force_no_holes>>

\* the summary, return successful > 0, and main's exit
Summary ==
    /\ pc = "loop"
    /\ idx > Len(df.rows)
    /\ pc' = "exit"
    /\ exit_code' = IF successful > 0 THEN 0 ELSE 1
    /\ UNCHANGED <<csv_data, args, openscad_params, raised, errors, warnings,
                   df, idx, successful, failed, attempted, cmd, outcome, files,
                   force_no_spike, force_no_holes>>

Next ==
    \/ Main
    \/ CheckOpenscad
    \/ CheckTemplate
    \/ LoadPlantData
    \/ ProcessPlant
    \/ Summary

---------------------------------------------------------------------------
(* The inputs                                                              *)

OptionalColumns == {"Nickname", "Width", "Height"}

RequiredColumns == { required_cols[k] : k \in 1..Len(required_cols) }

AllColumns == RequiredColumns \cup OptionalColumns

\* a row of the file: a cell for each column the file has
Series(columns, common, scientific, water, light, dry, spike, holes, nickname, width, height) ==
    [c \in columns |->
        CASE c = "Common Name"           -> common
          [] c = "Scientific Name"       -> scientific
          [] c = "Water"                 -> water
          [] c = "Light"                 -> light
          [] c = "Dry between Waterings" -> dry
          [] c = "Spike"                 -> spike
          [] c = "Holes"                 -> holes
          [] c = "Nickname"              -> nickname
          [] c = "Width"                 -> width
          [] OTHER                       -> height]

\* pd.read_csv gives the rows the labels 0, 1, 2, ...
RangeIndex(n) == [i \in 1..n |-> i - 1]

\* the state of a run before main starts
Start(frame, parsed) ==
    /\ csv_data = frame
    /\ args = parsed
    /\ pc = "main"
    /\ openscad_params = DefaultParams
    /\ raised = "pending"
    /\ errors = <<>>
    /\ warnings = <<>>
    /\ df = EmptyFrame
    /\ idx = 0
    /\ successful = 0
    /\ failed = 0
    /\ attempted = <<>>
    /\ cmd = NoCommand
    /\ outcome = "none"
    /\ files = {}
    /\ force_no_spike = "unset"
    /\ force_no_holes = "unset"
    /\ exit_code = Running

Text_Rose == <<"R", "o", "s", "e">>

Text_Fern == <<"F", "e", "r", "n">>

Text_Rosa == <<"R", "o", "s", "a">>

Text_Alba == <<"A", "l", "b", "a">>

Text_Blank == <<" ", " ">>

\* the rows the files of Spec are made of: four valid rows (three with the
\* same Common Name, two of these with the same Scientific Name too) and
\* two rows with one and two errors
PoolRows(columns) ==
    { Series(columns, StrCell(Text_Rose), StrCell(Text_Rosa), IntCell(2),
             IntCell(3), BoolCell(TRUE), BoolCell(FALSE), BoolCell(TRUE),
             NaN, NaN, NaN),
      Series(columns, StrCell(Text_Rose), StrCell(Text_Alba), IntCell(1),
             IntCell(4), BoolCell(FALSE), BoolCell(TRUE), BoolCell(FALSE),
             NaN, FloatCell(1000), NaN),
      Series(columns, StrCell(Text_Fern), StrCell(Text_Rosa), IntCell(4),
             IntCell(1), BoolCell(FALSE), BoolCell(FALSE), BoolCell(FALSE),
             StrCell(Text_Alba), NaN, FloatCell(400)),
      Series(columns, StrCell(Text_Rose), StrCell(Text_Rosa), IntCell(3),
             IntCell(2), BoolCell(TRUE), BoolCell(TRUE), BoolCell(FALSE),
             NaN, NaN, NaN),
      Series(columns, NaN, StrCell(Text_Rosa), IntCell(2),
             IntCell(3), BoolCell(TRUE), BoolCell(FALSE), BoolCell(TRUE),
             NaN, NaN, NaN),
      Series(columns, StrCell(Text_Blank), NaN, IntCell(2),
             IntCell(3), BoolCell(TRUE), BoolCell(FALSE), BoolCell(TRUE),
             NaN, NaN, NaN) }

\* the files of Spec have all columns, only the required ones, or lack the
\* required column Holes
ColumnChoices == { AllColumns, RequiredColumns, AllColumns \ {"Holes"} }

MaxRows == 4

Frames ==
    { DataFrame(columns, RangeIndex(Len(rows)), rows) :
        <<columns, rows>> \in
            UNION { {columns} \X
                    UNION { [1..n -> PoolRows(columns)] : n \in 0..MaxRows }
                    : columns \in ColumnChoices } }

Init == \E frame \in Frames : Start(frame, DefaultArgs)

Spec == Init /\ [][Next]_vars

---------------------------------------------------------------------------
(* Files of one row, for the checks of single cells                        *)

Text_abc == <<"a", "b", "c">>

Text_yes == <<"y", "e", "s">>

Text_No == <<"N", "o">>

Text_true_padded == <<" ", "t", "r", "u", "e", " ">>

Text_maybe == <<"m", "a", "y", "b", "e">>

Text_wide == <<"w", "i", "d", "e">>

\* Water / Light cells: missing, integers, other numbers, text
LevelCells ==
    { NaN, IntCell(0), IntCell(1), IntCell(4), IntCell(5), FloatCell(5),
      FloatCell(15), FloatCell(40), FloatCell(45), FloatCell(50),
      StrCell(Text_abc) }

\* Dry between Waterings / Spike / Holes cells
BooleanCells ==
    { NaN, BoolCell(TRUE), BoolCell(FALSE), IntCell(1), IntCell(0),
      IntCell(2), FloatCell(10), StrCell(Text_yes), StrCell(Text_No),
      StrCell(Text_true_padded), StrCell(Text_maybe) }

\* Width / Height cells
DimensionCells ==
    { NaN, IntCell(80), FloatCell(305), FloatCell(0), IntCell(-5),
      FloatCell(2500), StrCell(Text_wide) }

CellRows ==
    { Series(AllColumns, StrCell(Text_Rose), StrCell(Text_Rosa), water, light,
             BoolCell(TRUE), BoolCell(FALSE), NaN, NaN, NaN, NaN) :
        water \in LevelCells, light \in LevelCells }
    \cup
    { Series(AllColumns, StrCell(Text_Rose), StrCell(Text_Rosa), IntCell(2),
             IntCell(3), dry, spike, holes, NaN, NaN, NaN) :
        dry \in BooleanCells, spike \in BooleanCells, holes \in BooleanCells }
    \cup
    { Series(AllColumns, StrCell(Text_Rose), StrCell(Text_Rosa), IntCell(2),
             IntCell(3), BoolCell(TRUE), BoolCell(FALSE), NaN, NaN, width,
             height) :
        width \in DimensionCells, height \in DimensionCells }

InitCells ==
    \E row \in CellRows :
        Start(DataFrame(AllColumns, RangeIndex(1), <<row>>), DefaultArgs)

SpecCells == InitCells /\ [][Next]_vars

---------------------------------------------------------------------------
(* Files of one row, for the checks of names                               *)

NameAlphabet == {"a", " ", SingleQuote, DoubleQuote}

MaxNameLen == 6

Names == UNION { [1..n -> NameAlphabet] : n \in 1..MaxNameLen }

MaxNicknamedLen == 3

\* the names tried together with a Nickname cell
NicknamedNames == { name \in Names : Len(name) <= MaxNicknamedLen }

Text_Zed == <<"Z", "e", "d">>

\* the Nickname column is missing, or the cell is empty, blank or a name
NameRows ==
    { Series(RequiredColumns \cup {"Width", "Height"}, StrCell(name),
             StrCell(Text_Rosa), IntCell(2), IntCell(3), BoolCell(TRUE),
             BoolCell(FALSE), NaN, NaN, NaN, NaN) : name \in Names }
    \cup
    { Series(AllColumns, StrCell(name), StrCell(Text_Rosa), IntCell(2),
             IntCell(3), BoolCell(TRUE), BoolCell(FALSE), NaN, nickname, NaN,
             NaN) :
        name \in NicknamedNames,
        nickname \in {NaN, StrCell(Text_Blank), StrCell(Text_Zed)} }

InitNames ==
    \E row \in NameRows :
        Start(DataFrame(DOMAIN row, RangeIndex(1), <<row>>), DefaultArgs)

SpecNames == InitNames /\ [][Next]_vars

---------------------------------------------------------------------------
(* Files of valid rows under several command lines                         *)

\* parse_args() for a command line with some of --label-width 100,
\* --label-height 40, --no-frame, --no-spike, --no-holes (type=float turns
\* the text 100 into 100.0)
CommandLines ==
    { [DefaultArgs EXCEPT !.label_width = label_width,
                          !.label_height = label_height,
                          !.no_frame = no_frame,
                          !.no_spike = no_spike,
                          !.no_holes = no_holes] :
        label_width \in {IntCell(80), FloatCell(1000)},
        label_height \in {IntCell(30), FloatCell(400)},
        no_frame \in BOOLEAN, no_spike \in BOOLEAN, no_holes \in BOOLEAN }

\* four valid rows with different names: Spike and Holes TRUE, FALSE, text
\* or empty, Width and Height given or empty, one row with a Nickname
ArgRows ==
    { Series(AllColumns, StrCell(Text_Rose), StrCell(Text_Rosa), IntCell(2),
             IntCell(3), BoolCell(TRUE), BoolCell(TRUE), BoolCell(TRUE),
             NaN, NaN, NaN),
      Series(AllColumns, StrCell(Text_Rose), StrCell(Text_Alba), IntCell(1),
             IntCell(4), BoolCell(FALSE), BoolCell(FALSE), BoolCell(TRUE),
             NaN, FloatCell(1200), NaN),
      Series(AllColumns, StrCell(Text_Fern), StrCell(Text_Rosa), IntCell(4),
             IntCell(1), NaN, StrCell(Text_yes), BoolCell(FALSE),
             StrCell(Text_Alba), NaN, IntCell(50)),
      Series(AllColumns, StrCell(Text_Fern), StrCell(Text_Alba), IntCell(3),
             IntCell(2), BoolCell(TRUE), NaN, NaN,
             NaN, IntCell(90), FloatCell(455)) }

MaxArgRows == 2

ArgFrames ==
    { DataFrame(AllColumns, RangeIndex(Len(rows)), rows) :
        rows \in UNION { [1..n -> ArgRows] : n \in 1..MaxArgRows } }

InitArgs ==
    \E frame \in ArgFrames : \E parsed \in CommandLines : Start(frame, parsed)

SpecArgs == InitArgs /\ [][Next]_vars

---------------------------------------------------------------------------
(* Properties of validation and of the batch, checked under Spec           *)

\* the rows of the file with at least one field-level error
FailingRows ==
    { i \in 1..Len(csv_data.rows) :
        RowErrors(csv_data.rows[i], csv_data.index[i]) # <<>> }

HasRequiredColumns ==
    \A k \in 1..Len(required_cols) : required_cols[k] \in csv_data.columns

\* the row numbers the messages of `errors` name
RowsNamed == { errors[k].row : k \in 1..Len(errors) }

\* C1: when the file has every required column and some row has a
\* field-level error, the run renders no record at all, and validation,
\* once called, raises DataValidationError with the messages of every
\* failing row (and of no other row)
C1_AllOrNothing ==
    (HasRequiredColumns /\ FailingRows # {}) =>
        /\ raised \in {"pending", "FileNotFoundError", "DataValidationError"}
        /\ pc # "loop"
        /\ df.rows = <<>>
        /\ attempted = <<>>
        /\ files = {}
        /\ raised = "DataValidationError" =>
              RowsNamed = { csv_data.index[i] + 1 : i \in FailingRows }

\* validation raised for a file with two failing rows and a valid one,
\* and the run ended with nothing attempted
C1_Witness ==
    /\ pc = "exit"
    /\ raised = "DataValidationError"
    /\ Cardinality(FailingRows) >= 2
    /\ FailingRows # 1..Len(csv_data.rows)
    /\ Cardinality(RowsNamed) >= 2
    /\ attempted = <<>>

\* C2: every record that survives validation is attempted exactly once, in
\* file order, whatever happened to the records before it (renderer exit
\* status, timeout, exception while building the command), and at the end
\* success count + failure count = the number of surviving records
C2_Isolation ==
    (raised = "none" /\ df.rows # <<>>) =>
        /\ pc \in {"loop", "exit"}
        /\ attempted = SubSeq(df.index, 1, idx - 1)
        /\ successful + failed = idx - 1
        /\ pc = "exit" =>
              /\ attempted = df.index
              /\ successful + failed = Len(df.rows)

\* the batch ended after three records, of which one at least failed and a
\* later one succeeded
C2_Witness ==
    /\ pc = "exit"
    /\ Len(df.rows) = 3
    /\ attempted = df.index
    /\ failed >= 1
    /\ outcome = "exit_0"

\* a cell the record does not provide: no such column, or an empty cell
Absent(plant, field) == field \notin DOMAIN plant \/ pd_isna(plant[field])

\* the value a command gives to -D name=...
DefineValue(command, name) ==
    command.defines[CHOOSE k \in 1..Len(command.defines) :
                        command.defines[k].name = name].value

\* a number cell, in tenths
Tenths(cell) == IF cell.t = "int" THEN 10 * cell.n ELSE cell.n

UsesDefault(command, plant, field, name, tenths) ==
    Absent(plant, field) =>
        /\ command.exc = "none"
        /\ Tenths(DefineValue(command, name)) = tenths

\* C3: for a record without a Width (Height) value - the column is missing
\* from the file, or the cell is empty - the command is built with
\* label_width 80.0 (label_height 30.0)
C3_DefaultDimensions ==
    outcome # "none" =>
        /\ UsesDefault(cmd, df.rows[idx - 1], "Width", "label_width", 800)
        /\ UsesDefault(cmd, df.rows[idx - 1], "Height", "label_height", 300)

\* the identity pairs of the rows of the file
InputPairs ==
    { <<csv_data.rows[i]["Common Name"], csv_data.rows[i]["Scientific Name"]>> :
        i \in 1..Len(csv_data.rows) }

\* row k of df is the first row of the file with its identity pair
IsFirstOccurrence(k) ==
    /\ df.rows[k] = csv_data.rows[df.index[k] + 1]
    /\ \A j \in 1..df.index[k] :
          \/ csv_data.rows[j]["Common Name"] # df.rows[k]["Common Name"]
          \/ csv_data.rows[j]["Scientific Name"] # df.rows[k]["Scientific Name"]

\* C4: of the valid rows with M distinct (Common Name, Scientific Name)
\* pairs exactly M records survive, each the first row of its pair, in the
\* order of the file
C4_KeepFirst ==
    raised = "none" =>
        /\ Len(df.rows) = Cardinality(InputPairs)
        /\ \A k \in 1..Len(df.rows) : IsFirstOccurrence(k)
        /\ \A k \in 1..Len(df.rows) : \A l \in 1..Len(df.rows) :
              k < l => df.index[k] < df.index[l]

\* a file of four valid rows, the second a different row with the pair of
\* the first and the fourth a different row with the pair of the third:
\* the first and the third are kept
C4_Witness ==
    /\ raised = "none"
    /\ Len(csv_data.rows) = 4
    /\ Len(df.rows) = 2
    /\ df.index = <<0, 2>>
    /\ csv_data.rows[2] # csv_data.rows[1]
    /\ csv_data.rows[4] # csv_data.rows[3]
    /\ pc = "exit"

\* C5: when duplicates are removed, the count in the "Removed ... duplicate
\* rows" warning is the number of rows dropped
C5_RemovedCount ==
    \A k \in 1..Len(warnings) :
        warnings[k].what = "Removed duplicate rows" =>
            warnings[k].count = Len(csv_data.rows) - Len(df.rows)

\* C6: two different records of the batch have different output paths, so
\* the batch writes as many files as it reports successes
C6_DistinctOutputs ==
    /\ \A k \in 1..Len(df.rows) : \A l \in 1..Len(df.rows) :
          k # l => sanitize_filename(df.rows[k]["Common Name"].s)
                   # sanitize_filename(df.rows[l]["Common Name"].s)
    /\ Cardinality(files) = successful

---------------------------------------------------------------------------
(* Properties of single cells, checked under SpecCells                     *)

\* the file was found and validate_csv_data was called
Validated == raised \in {"none", "DataValidationError"}

\* validation reported the cell of `field` in row i of the file
Reported(i, field) ==
    \E k \in 1..Len(errors) :
        errors[k].row = csv_data.index[i] + 1 /\ errors[k].field = field

\* the cell holds an integer of 1..4: as an integer, as a number without a
\* fractional part, or as the text of one
IsLevel(cell) ==
    \E n \in 1..4 :
        \/ cell.t = "int" /\ cell.n = n
        \/ cell.t = "float" /\ cell.n = 10 * n
        \/ cell.t = "str" /\ str_strip(cell.s) = NatStr(n)

\* C7: a Water or Light cell is accepted only when it is an integer of
\* 1..4; an integer outside 1..4, a string that is no number, and a number
\* that is no integer (4.5), are reported as errors
C7_LevelsRangeChecked ==
    Validated =>
        \A i \in 1..Len(csv_data.rows) : \A field \in {"Water", "Light"} :
            Reported(i, field) <=> ~IsLevel(csv_data.rows[i][field])

\* c is the letter u or its lower-case form
FoldsTo(c, u) == c = u \/ (c \in DOMAIN UpperOf /\ UpperOf[c] = u)

\* text is word, in any case, between whitespace
IsPadded(text, word) ==
    \E a \in 0..Len(text) :
        /\ a + Len(word) <= Len(text)
        /\ \A j \in 1..a : IsSpace(text[j])
        /\ \A j \in 1..Len(word) : FoldsTo(text[a + j], word[j])
        /\ \A j \in (a + Len(word) + 1)..Len(text) : IsSpace(text[j])

AllowList ==
    { <<"T", "R", "U", "E">>, <<"F", "A", "L", "S", "E">>, <<"1">>, <<"0">>,
      <<"Y", "E", "S">>, <<"N", "O">> }

Allowed(cell) ==
    pd_isna(cell) \/ \E word \in AllowList : IsPadded(py_str(cell), word)

\* C8: a Dry between Waterings / Spike / Holes cell passes validation if and
\* only if it is empty or its text form, trimmed and case-folded, is one of
\* TRUE, FALSE, 1, 0, YES, NO
C8_BooleanAllowList ==
    Validated =>
        \A i \in 1..Len(csv_data.rows) :
            \A k \in 1..Len(bool_fields) :
                Reported(i, bool_fields[k])
                    <=> ~Allowed(csv_data.rows[i][bool_fields[k]])

\* validation passed " true " in Holes and "No" in Dry between Waterings
\* and reported the number 1.0 in Spike
C8_Witness ==
    /\ raised = "DataValidationError"
    /\ csv_data.rows[1]["Holes"] = StrCell(Text_true_padded)
    /\ csv_data.rows[1]["Dry between Waterings"] = StrCell(Text_No)
    /\ csv_data.rows[1]["Spike"] = FloatCell(10)
    /\ Reported(1, "Spike")
    /\ ~Reported(1, "Holes")
    /\ ~Reported(1, "Dry between Waterings")

---------------------------------------------------------------------------
(* Properties of the names in the command, checked under SpecNames         *)

\* the number of characters q among the first n of s
QuoteCount(s, q, n) == Cardinality({ j \in 1..n : s[j] = q })

\* the quotes of s that open or close a segment: all, or all but the last
PairedQuotes(s, q) == 2 * (QuoteCount(s, q, Len(s)) \div 2)

\* s[i] is in a quoted segment, the quotes included
InSegment(s, q, i) ==
    IF s[i] = q THEN QuoteCount(s, q, i) <= PairedQuotes(s, q)
    ELSE /\ QuoteCount(s, q, i) % 2 = 1
         /\ QuoteCount(s, q, i) < PairedQuotes(s, q)

\* the positions of s outside the quoted segments
Outside(s, q) == { i \in 1..Len(s) : ~InSegment(s, q, i) }

\* text is the content of the first segment of s quoted with q
IsFirstSegment(text, s, q) ==
    \E a \in 1..Len(s) : \E b \in (a + 1)..Len(s) :
        /\ s[a] = q /\ s[b] = q
        /\ \A j \in 1..(b - 1) : j # a => s[j] # q
        /\ text = SubSeq(s, a + 1, b - 1)

\* text is full without the whitespace at its two ends
IsTrimmed(text, full) ==
    /\ text = <<>> \/ (~IsSpace(text[1]) /\ ~IsSpace(text[Len(text)]))
    /\ \E a \in 0..Len(full) :
          /\ a + Len(text) <= Len(full)
          /\ text = SubSeq(full, a + 1, a + Len(text))
          /\ \A j \in 1..a : IsSpace(full[j])
          /\ \A j \in (a + Len(text) + 1)..Len(full) : IsSpace(full[j])

\* the record has a Nickname field that is present and not blank
NicknameGiven(plant) ==
    /\ "Nickname" \in DOMAIN plant
    /\ plant["Nickname"].t = "str"
    /\ \E j \in 1..Len(plant["Nickname"].s) : ~IsSpace(plant["Nickname"].s[j])

\* the quote style that governs: single when the name has a single-quoted
\* segment, else double when it has a double-quoted one, else "" (neither)
GoverningQuote(name) ==
    IF QuoteCount(name, SingleQuote, Len(name)) >= 2 THEN SingleQuote
    ELSE IF QuoteCount(name, DoubleQuote, Len(name)) >= 2 THEN DoubleQuote
    ELSE ""

\* the command names the record as the Nickname field and the unchanged
\* Common Name
NamedByField(command, plant) ==
    /\ DefineValue(command, "nickname") = StrCell(plant["Nickname"].s)
    /\ DefineValue(command, "plant_name") = plant["Common Name"]

\* the command names the record by the first segment of `name` quoted with
\* q and by `name` without its segments quoted with q; by `name` and the
\* empty nickname when q is ""
NamedByQuotes(command, name, q) ==
    IF q = ""
    THEN /\ DefineValue(command, "nickname") = StrCell(<<>>)
         /\ DefineValue(command, "plant_name") = StrCell(name)
    ELSE /\ IsFirstSegment(DefineValue(command, "nickname").s, name, q)
         /\ IsTrimmed(DefineValue(command, "plant_name").s,
                      SubseqAt(name, Outside(name, q)))

\* a command was built for the record before idx
Built == outcome \notin {"none", "Exception"}

\* C9: with a Nickname field present and not blank, the nickname parameter
\* is that field and plant_name the unchanged Common Name; otherwise a
\* single-quoted segment of Common Name governs, even after a double-quoted
\* one, else a double-quoted one: the nickname is the content of the first
\* segment of the governing style and plant_name loses every segment of
\* that style, quotes included; without a segment the nickname is empty
C9_NicknameDerivation ==
    Built =>
        IF NicknameGiven(df.rows[idx - 1])
        THEN NamedByField(cmd, df.rows[idx - 1])
        ELSE NamedByQuotes(cmd, df.rows[idx - 1]["Common Name"].s,
                 GoverningQuote(df.rows[idx - 1]["Common Name"].s))

\* a command built from a name with a double-quoted segment before a
\* single-quoted one: the nickname is the content of the single-quoted
\* one, and the double-quoted one stays in plant_name
C9_Witness ==
    /\ Built
    /\ ~NicknameGiven(df.rows[idx - 1])
    /\ df.rows[idx - 1]["Common Name"].s
          = <<DoubleQuote, " ", DoubleQuote, SingleQuote, "a", SingleQuote>>
    /\ DefineValue(cmd, "nickname") = StrCell(<<"a">>)
    /\ DefineValue(cmd, "plant_name")
          = StrCell(<<DoubleQuote, " ", DoubleQuote>>)

\* the whitespace text starts with
LeadingSpaces(text) == Len(text) - Len(str_lstrip(text))

\* the places where a segment was removed from the middle of s, counted in
\* the characters kept before them
RemovedAt(s, q) ==
    { Cardinality(Outside(s, q) \cap 1..i) :
        i \in { j \in Outside(s, q) :
                  /\ j + 1 <= Len(s)
                  /\ j + 1 \notin Outside(s, q)
                  /\ \E l \in Outside(s, q) : l > j } }

\* a run of two or more whitespace characters of text across the place
\* between text[t] and text[t + 1]
RunAt(text, t) ==
    /\ t >= 1
    /\ t + 1 <= Len(text)
    /\ IsSpace(text[t])
    /\ IsSpace(text[t + 1])

Collapsed(text, name, q) ==
    /\ text = <<>> \/ (~IsSpace(text[1]) /\ ~IsSpace(text[Len(text)]))
    /\ \A r \in RemovedAt(name, q) :
          ~RunAt(text,
                 r - LeadingSpaces(SubseqAt(name, Outside(name, q))))

\* C10: after a quoted segment was removed from Common Name, at its start,
\* in its middle or at its end, plant_name has no leading or trailing
\* whitespace and no run of two or more whitespace characters at the place
\* of the segment
C10_WhitespaceCollapsed ==
    (/\ Built
     /\ ~NicknameGiven(df.rows[idx - 1])
     /\ GoverningQuote(df.rows[idx - 1]["Common Name"].s) # "") =>
        Collapsed(DefineValue(cmd, "plant_name").s,
                  df.rows[idx - 1]["Common Name"].s,
                  GoverningQuote(df.rows[idx - 1]["Common Name"].s))

---------------------------------------------------------------------------
(* Properties of the command under a command line, checked under SpecArgs  *)

\* the keys the command takes from the record
RecordKeys ==
    {"plant_name", "scientific_name", "nickname", "water_drops", "light_type",
     "show_dry_soil_symbol", "spike_enabled", "enable_hanging_holes",
     "label_width", "label_height"}

\* how often the command assigns the key
Assignments(command, key) ==
    Cardinality({ k \in 1..Len(command.defines) :
                    command.defines[k].name = key })

\* the flag a boolean cell stands for: true for TRUE, YES, 1
RecordFlag(cell) ==
    BoolCell(/\ pd_notna(cell)
             /\ \E word \in {<<"T", "R", "U", "E">>, <<"Y", "E", "S">>, <<"1">>} :
                   IsPadded(py_str(cell), word))

\* the dimension of the command is the float of the cell, when there is one
FromDimension(command, plant, field, key) ==
    pd_notna(plant[field]) =>
        /\ DefineValue(command, key).t = "float"
        /\ DefineValue(command, key).n = Tenths(plant[field])

FromRecord(command, plant) ==
    /\ IF NicknameGiven(plant) THEN NamedByField(command, plant)
       ELSE NamedByQuotes(command, plant["Common Name"].s,
                          GoverningQuote(plant["Common Name"].s))
    /\ DefineValue(command, "scientific_name") = plant["Scientific Name"]
    /\ DefineValue(command, "water_drops") = plant["Water"]
    /\ DefineValue(command, "light_type") = plant["Light"]
    /\ DefineValue(command, "show_dry_soil_symbol")
          = RecordFlag(plant["Dry between Waterings"])
    /\ DefineValue(command, "spike_enabled") = RecordFlag(plant["Spike"])
    /\ DefineValue(command, "enable_hanging_holes") = RecordFlag(plant["Holes"])
    /\ FromDimension(command, plant, "Width", "label_width")
    /\ FromDimension(command, plant, "Height", "label_height")

C12_FlagsOverride ==
    Built =>
        /\ args.no_spike =>
              DefineValue(cmd, "spike_enabled") = BoolCell(FALSE)
        /\ args.no_holes =>
              DefineValue(cmd, "enable_hanging_holes") = BoolCell(FALSE)

---------------------------------------------------------------------------
(* The exit status, checked under Spec                                     *)

\* C13: a run exits with status 0 if and only if at least one record was
\* rendered successfully, and with status 1 in every other case: renderer
\* or template missing, CSV not found, missing column or validation error,
\* no valid row, every render failed
C13_ExitStatus ==
    IF pc = "exit"
    THEN /\ exit_code \in {0, 1}
         /\ exit_code = 0 <=> successful >= 1
         /\ exit_code = 0 => files # {}
    ELSE exit_code = Running

\* a run that exits 0 after one success and two failures
C13_Witness ==
    /\ pc = "exit"
    /\ exit_code = 0
    /\ successful = 1
    /\ failed = 2

---------------------------------------------------------------------------
(* Validation and conversion of booleans, checked under SpecCells          *)

\* the key of the command for a boolean field
FlagKey(field) ==
    CASE field = "Dry between Waterings" -> "show_dry_soil_symbol"
      [] field = "Spike"                 -> "spike_enabled"
      [] OTHER                           -> "enable_hanging_holes"

\* the conversion of the cell stops at one of its two lists: neither the
\* numeric fallback nor the default for invalid values is reached
Listed(cell) ==
    pd_notna(cell) =>
        str_upper(str_strip(py_str(cell))) \in TrueTexts \cup FalseTexts

\* C14: for a cell that passed _is_valid_boolean the command has "true"
\* exactly when the trimmed, case-folded cell is TRUE, YES or 1, and
\* "false" otherwise (FALSE, NO, 0, empty); the numeric fallback and the
\* default for invalid values are not reached
C14_BooleansAgree ==
    Built =>
        \A k \in 1..Len(bool_fields) :
            Allowed(df.rows[idx - 1][bool_fields[k]]) =>
                /\ DefineValue(cmd, FlagKey(bool_fields[k]))
                      = RecordFlag(df.rows[idx - 1][bool_fields[k]])
                /\ Listed(df.rows[idx - 1][bool_fields[k]])

\* a command built for a row with 0, "yes" and " true ": false, true, true
C14_Witness ==
    /\ Built
    /\ df.rows[idx - 1]["Dry between Waterings"] = IntCell(0)
    /\ df.rows[idx - 1]["Spike"] = StrCell(Text_yes)
    /\ df.rows[idx - 1]["Holes"] = StrCell(Text_true_padded)
    /\ DefineValue(cmd, "show_dry_soil_symbol") = BoolCell(FALSE)
    /\ DefineValue(cmd, "spike_enabled") = BoolCell(TRUE)
    /\ DefineValue(cmd, "enable_hanging_holes") = BoolCell(TRUE)

====
